---------------------------- MODULE Spec2Model ----------------------------
(***************************************************************************)
(* WinPR thread handles on top of pthreads                                 *)
(* (winpr/libwinpr/thread/thread.c).                                       *)
(*                                                                         *)
(* A Thread Object (WINPR_THREAD) is modelled by the record of its fields, *)
(* obj[t] for t in Threads.  Every OS thread has a program counter named   *)
(* after the source line it is about to execute:                           *)
(* the application threads in Callers run the public operations, and the   *)
(* OS thread spawned for object t runs thread_launcher.  A step is one     *)
(* access to state another thread can observe.                             *)
(***************************************************************************)
EXTENDS Integers, FiniteSets, Sequences, TLC

(* ------------------------------ bounds -------------------------------- *)

\* Thread Objects that can be created in one run.
NThreads == 2

\* Exit codes passed to the operations and returned by start functions
\* are 1..MaxCode (0 is what calloc leaves in dwExitCode).
MaxCode == 2

\* Public operations issued on handles after their creation, per run.
MaxCalls == 2

(* ------------------------------ values -------------------------------- *)

Threads == 1 .. NThreads

Codes == 1 .. MaxCode

\* A null pointer / a zeroed pthread_t / a zeroed DWORD.
NULL == 0

\* The address of the static singleton mainThread.
mainThread == NThreads + 1

\* pthread_self() of the thread that started the process, and of a thread
\* the host created without CreateThread.  The OS thread spawned for
\* object t has pthread_self() = t.
OriginalThread == NThreads + 1

RawThread == NThreads + 2

Callers == {OriginalThread, RawThread}

\* WaitForSingleObject's results and the failure value of ResumeThread.
WAIT_OBJECT_0 == 0

WAIT_TIMEOUT == 258

WAIT_FAILED == -1

\* A start routine: lpStartAddress is either a function that returns ret,
\* or one that calls ExitThread(code) and returns 0 should that call
\* come back.
FnReturn(v) == [kind |-> "return", code |-> 0, ret |-> v]

FnExit(c) == [kind |-> "exit", code |-> c, ret |-> 0]

StartRoutines == {FnReturn(v) : v \in Codes} \cup {FnExit(c) : c \in Codes}

NoRoutine == [kind |-> "none", code |-> 0, ret |-> 0]

\* The primitives a Thread Object owns, named after its fields, in the
\* order CreateThread constructs them (lines 429-467) and in the order
\* cleanup_handle releases them (lines 499-525).
InitOrder ==
    << "event", "mutex", "apc", "threadIsReadyMutex", "threadReadyMutex",
       "threadIsReady", "threadReady" >>

ReleaseOrder ==
    << "apc", "threadIsReady", "threadReady", "threadIsReadyMutex",
       "threadReadyMutex", "mutex", "event" >>

Primitives == {InitOrder[i] : i \in 1 .. Len(InitOrder)}

\* A run meets no failure of a primitive, or the construction of the
\* init-th primitive fails in CreateThread, or the release of one
\* primitive reports an error in cleanup_handle.
NoFault == [init |-> 0, release |-> "none"]

Faults ==
    {NoFault}
      \cup {[init |-> k, release |-> "none"] : k \in 1 .. Len(InitOrder)}
      \cup {[init |-> 0, release |-> p] : p \in Primitives}

(* ------------------------------ state --------------------------------- *)

VARIABLES
    WITH_THREAD_LIST,   \* build option: the thread list is compiled in
    fault,              \* the host-primitive failure this run meets, if any
    threads_InitOnce,   \* initializeThreads has run
    mainThreadId,       \* static pthread_t mainThreadId
    thread_list,        \* Thread Objects registered in thread_list
    thread_list_lock,   \* the thread inside ListDictionary_Lock(thread_list)
    obj,                \* obj[t]: the fields of WINPR_THREAD t
    os,                 \* os[t]: the OS thread spawned for t
    caller,             \* caller[c]: the operation application thread c runs
    calls,              \* operations issued on handles so far
    hist                \* hist[t]: what has happened to t (history only)

vars == << WITH_THREAD_LIST, fault, thread_list_lock, threads_InitOnce,
           mainThreadId, thread_list, obj, os, caller, calls, hist >>

globals == << WITH_THREAD_LIST, fault, thread_list_lock, threads_InitOnce,
             mainThreadId, thread_list >>

\* calloc(1, sizeof(WINPR_THREAD)) before CreateThread fills it in.
\* alloc is "unborn" before the calloc, "live" after it, "freed" after
\* free(); a mutex holds the pthread_self() of its owner or NULL; a
\* condition is "idle", "waiting" (its one waiter sleeps) or "signalled";
\* constructed is the set of primitives whose construction succeeded.
ZeroedThread ==
    [ alloc |-> "unborn", lpStartAddress |-> NoRoutine,
      started |-> FALSE, exited |-> FALSE, detached |-> FALSE,
      joined |-> FALSE, dwExitCode |-> 0, event |-> FALSE,
      mutex |-> NULL, threadReadyMutex |-> NULL, threadIsReadyMutex |-> NULL,
      threadReady |-> "idle", threadIsReady |-> "idle",
      thread |-> NULL, apc |-> 0,
      constructed |-> {} ]

\* An OS thread that has not been spawned: pc is the line thread_launcher
\* is at, tls the value of its current-thread slot, sawExited what line 346
\* read, rc the local rc, cancelReq whether pthread_cancel was requested,
\* detached whether pthread_detach was applied.
NoOsThread ==
    [ pc |-> "none", tls |-> NULL, rc |-> 0, sawExited |-> FALSE,
      cancelReq |-> FALSE, detached |-> FALSE ]

IdleCaller == [ pc |-> "idle", op |-> "none", t |-> NULL, arg |-> 0, ret |-> 0 ]

NoHistory ==
    [ suspended |-> FALSE,  \* created with CREATE_SUSPENDED
      handle |-> "none",    \* "none", "open" (returned by CreateThread), "closed"
      resumed |-> FALSE,    \* a ResumeThread call has been issued
      spawned |-> 0,        \* OS threads spawned
      spawnFailed |-> FALSE, \* pthread_create failed in winpr_StartThread
      joins |-> 0,          \* successful pthread_join calls
      fnCalls |-> 0,        \* invocations of the start routine
      ownExit |-> FALSE,    \* the thread's own exit set the latch
      closed |-> "no",      \* what ThreadCloseHandle found: "pending", "running", "exited"
      selfExit |-> 0,       \* code given to ExitThread by the thread
      afterExit |-> FALSE,  \* user code ran after the ExitThread call
      terminated |-> 0,     \* code of the last TerminateThread that returned TRUE
      freedBy |-> NULL,     \* pthread_self() of the thread that freed the object
      frees |-> 0,          \* calls of cleanup_handle on the object
      released |-> << >>,   \* primitives cleanup_handle released, in order
      current |-> {} ]      \* what winpr_GetCurrentThread returned to the thread

InitState ==
    /\ WITH_THREAD_LIST \in BOOLEAN
    /\ threads_InitOnce = FALSE
    /\ mainThreadId = NULL
    /\ thread_list = {}
    /\ thread_list_lock = NULL
    /\ obj = [t \in Threads |-> ZeroedThread]
    /\ os = [t \in Threads |-> NoOsThread]
    /\ caller = [c \in Callers |-> IdleCaller]
    /\ calls = 0
    /\ hist = [t \in Threads |-> NoHistory]

\* No primitive fails.
Init == InitState /\ fault = NoFault

\* One primitive may fail.
InitFaulty == InitState /\ fault \in Faults

(* ----------------------------- helpers -------------------------------- *)

At(c, t, p) == caller[c].pc = p /\ caller[c].t = t

Goto(c, p) == caller' = [caller EXCEPT ![c].pc = p]

\* The operation produces its result; the application thread then takes
\* it and is free for its next operation.
Return(c, v) == caller' = [caller EXCEPT ![c].pc = "ret", ![c].ret = v]

Returned(c) ==
    /\ caller[c].pc = "ret"
    /\ caller' = [caller EXCEPT ![c] = IdleCaller]
    /\ UNCHANGED << globals, obj, os, calls, hist >>

\* An operation that is over in one step.
CallReturn(c, o, t, v) ==
    caller' = [caller EXCEPT ![c] = [pc |-> "ret", op |-> o, t |-> t, arg |-> 0, ret |-> v]]

Call(c, o, t, a, p) ==
    caller' = [caller EXCEPT ![c] = [pc |-> p, op |-> o, t |-> t, arg |-> a, ret |-> 0]]

\* set_event, line 231.
set_event(o) == [o EXCEPT !.event = TRUE]

\* A reset that leaves the latch as it is.
reset_event_Kept(o) == o

\* reset_event, line 236.
reset_event(o) == [o EXCEPT !.event = FALSE]

\* pthread_cond_signal: wakes the waiter if there is one; a signal sent
\* while nobody waits is lost.
cond_signal(cond) == IF cond = "waiting" THEN "signalled" ELSE cond

\* A wait without a deadline: it returns only once signalled.
TimedWaitReturns_Signalled(cond) == cond = "signalled"

\* pthread_cond_timedwait returns once the condition was signalled or the
\* time given in waittime has passed, whichever comes first.
TimedWaitReturns(cond) == cond = "signalled" \/ cond = "waiting"

\* thread_list is a synchronized dictionary: its operations and
\* ListDictionary_Lock wait while another thread is inside
\* ListDictionary_Lock.
ListFree(self) == ~WITH_THREAD_LIST \/ thread_list_lock \in {NULL, self}

\* InitOnceExecuteOnce(&threads_InitOnce, initializeThreads, ...) called by
\* the thread whose pthread_self() is self.
InitOnceExecuteOnce(self) ==
    /\ threads_InitOnce' = TRUE
    /\ mainThreadId' = IF threads_InitOnce THEN mainThreadId ELSE self
    /\ UNCHANGED << WITH_THREAD_LIST, fault, thread_list_lock >>

\* A teardown that gives up at the first release that reports an error.
ContinuesAfter_Never(rc) == rc = 0

\* Lines 499-525: what a release returns is logged and nothing else.
ContinuesAfter(rc) == TRUE

\* What the release of primitive p returns: 0, or an error code.
ReleaseResult(p) == IF fault.release = p THEN 1 ELSE 0

\* The primitives cleanup_handle releases from the i-th of its order on.
RECURSIVE ReleasedFrom(_)
ReleasedFrom(i) ==
    IF i > Len(ReleaseOrder) THEN << >>
    ELSE IF ContinuesAfter(ReleaseResult(ReleaseOrder[i]))
         THEN << ReleaseOrder[i] >> \o ReleasedFrom(i + 1)
         ELSE << ReleaseOrder[i] >>

\* cleanup_handle, lines 492-541: releases the primitives, whether they
\* were constructed or not, and frees the object; with the thread list
\* compiled in the object is removed from it.
cleanup_handle(self, t) ==
    /\ obj' = [obj EXCEPT ![t].alloc =
                 IF Len(ReleasedFrom(1)) = Len(ReleaseOrder) THEN "freed" ELSE @]
    /\ thread_list' = IF WITH_THREAD_LIST THEN thread_list \ {t} ELSE thread_list
    /\ hist' = [hist EXCEPT ![t].freedBy = self,
                            ![t].frees = @ + 1,
                            ![t].released = @ \o ReleasedFrom(1)]

(* ---------------------------- CreateThread ---------------------------- *)

\* Lines 429-467: the primitives constructed when the construction of
\* the k-th fails, every one when none fails (k = 0).
Constructed(k) ==
    IF k = 0 THEN Primitives ELSE {InitOrder[i] : i \in 1 .. (k - 1)}

\* Lines 414-473: allocate and fill in the object, construct its
\* primitives, run the one-time initialization.  The object is still
\* private to the creator.  A primitive that cannot be constructed sends
\* CreateThread to fail (line 487).  With CREATE_SUSPENDED the latch is
\* preset (line 482) and the handle returned; otherwise
\* winpr_StartThread runs.
CreateThread(c, t, fn, suspended) ==
    /\ caller[c].pc = "idle"
    /\ obj[t].alloc = "unborn"
    /\ \A u \in Threads : u < t => obj[u].alloc # "unborn"
    /\ IF fault.init = 0
       THEN InitOnceExecuteOnce(c)
       ELSE UNCHANGED << WITH_THREAD_LIST, fault, thread_list_lock, threads_InitOnce, mainThreadId >>
    /\ obj' = [obj EXCEPT ![t] =
                 IF suspended /\ fault.init = 0
                 THEN set_event([ZeroedThread EXCEPT !.alloc = "live",
                                                     !.lpStartAddress = fn,
                                                     !.constructed = Primitives])
                 ELSE [ZeroedThread EXCEPT !.alloc = "live",
                                           !.lpStartAddress = fn,
                                           !.constructed = Constructed(fault.init)]]
    /\ hist' = [hist EXCEPT ![t].suspended = suspended,
                            ![t].handle = IF suspended /\ fault.init = 0
                                          THEN "open" ELSE "none"]
    /\ IF fault.init # 0
       THEN Call(c, "Create", t, 0, "C488")
       ELSE IF suspended
            THEN CallReturn(c, "Create", t, t)
            ELSE Call(c, "Create", t, 0, "S369")
    /\ UNCHANGED << thread_list, os, calls >>

\* Lines 487-489: a primitive could not be constructed or
\* winpr_StartThread failed; the object is torn down and NULL returned.
CreateThread_fail(c, t) ==
    /\ At(c, t, "C488")
    /\ ListFree(c)
    /\ cleanup_handle(c, t)
    /\ Return(c, NULL)
    /\ UNCHANGED << WITH_THREAD_LIST, fault, thread_list_lock, threads_InitOnce, mainThreadId, os, calls >>

(* -------------------------- winpr_StartThread ------------------------- *)

\* Where winpr_StartThread returns to: CreateThread (lines 477-486) or
\* ResumeThread (lines 754-763).
StartFailed(c) == IF caller[c].op = "Create" THEN "C488" ELSE "R756"

\* Line 369.
StartThread_started(c, t) ==
    /\ At(c, t, "S369")
    /\ obj' = [obj EXCEPT ![t].started = TRUE]
    /\ Goto(c, "S370")
    /\ UNCHANGED << globals, os, calls, hist >>

\* Line 370.
StartThread_reset(c, t) ==
    /\ At(c, t, "S370")
    /\ obj' = [obj EXCEPT ![t] = reset_event(@)]
    /\ Goto(c, "S372")
    /\ UNCHANGED << globals, os, calls, hist >>

\* Lines 372-382: lock threadReadyMutex and register the thread.
StartThread_lock(c, t) ==
    /\ At(c, t, "S372")
    /\ obj[t].threadReadyMutex = NULL
    /\ ListFree(c)
    /\ obj' = [obj EXCEPT ![t].threadReadyMutex = c]
    /\ thread_list' = IF WITH_THREAD_LIST THEN thread_list \cup {t} ELSE thread_list
    /\ Goto(c, "S384")
    /\ UNCHANGED << WITH_THREAD_LIST, fault, thread_list_lock, threads_InitOnce, mainThreadId, os, calls, hist >>

\* Line 384, pthread_create succeeds: the OS thread exists and is about to
\* enter thread_launcher.
StartThread_spawn(c, t) ==
    /\ At(c, t, "S384")
    /\ obj' = [obj EXCEPT ![t].thread = t]
    /\ os' = [os EXCEPT ![t] = [NoOsThread EXCEPT !.pc = "L304"]]
    /\ hist' = [hist EXCEPT ![t].spawned = @ + 1]
    /\ Goto(c, "S390")
    /\ UNCHANGED << globals, calls >>

\* A Start sequence that takes back started when pthread_create fails.
StartThread_spawnFails_Undone(c, t) ==
    /\ At(c, t, "S384")
    /\ obj' = [obj EXCEPT ![t].threadReadyMutex = NULL, ![t].started = FALSE]
    /\ hist' = [hist EXCEPT ![t].spawnFailed = TRUE]
    /\ Goto(c, StartFailed(c))
    /\ UNCHANGED << globals, os, calls >>

\* Lines 384-388, pthread_create fails.
StartThread_spawnFails(c, t) ==
    /\ At(c, t, "S384")
    /\ obj' = [obj EXCEPT ![t].threadReadyMutex = NULL]
    /\ hist' = [hist EXCEPT ![t].spawnFailed = TRUE]
    /\ Goto(c, StartFailed(c))
    /\ UNCHANGED << globals, os, calls >>

\* Line 390, entering pthread_cond_timedwait: the mutex is released and
\* the creator sleeps on threadReady.
StartThread_wait(c, t) ==
    /\ At(c, t, "S390")
    /\ obj' = [obj EXCEPT ![t].threadReadyMutex = NULL, ![t].threadReady = "waiting"]
    /\ Goto(c, "S390w")
    /\ UNCHANGED << globals, os, calls, hist >>

\* Line 390, pthread_cond_timedwait returns with the mutex held again.
StartThread_woken(c, t) ==
    /\ At(c, t, "S390w")
    /\ TimedWaitReturns(obj[t].threadReady)
    /\ obj[t].threadReadyMutex = NULL
    /\ obj' = [obj EXCEPT ![t].threadReadyMutex = c, ![t].threadReady = "idle"]
    /\ Goto(c, "S392")
    /\ UNCHANGED << globals, os, calls, hist >>

\* A Start sequence that goes on without unlocking threadReadyMutex.
StartThread_unlock_Kept(c, t) ==
    /\ At(c, t, "S392")
    /\ Goto(c, "S395")
    /\ UNCHANGED << globals, obj, os, calls, hist >>

\* Line 392.
StartThread_unlock(c, t) ==
    /\ At(c, t, "S392")
    /\ obj' = [obj EXCEPT ![t].threadReadyMutex = NULL]
    /\ Goto(c, "S395")
    /\ UNCHANGED << globals, os, calls, hist >>

\* Lines 395-403: signal threadIsReady and return TRUE; CreateThread then
\* returns the handle (line 486), ResumeThread goes on to line 763.
StartThread_signal(c, t) ==
    /\ At(c, t, "S395")
    /\ obj' = [obj EXCEPT ![t].threadIsReady = cond_signal(@)]
    /\ IF caller[c].op = "Create"
       THEN /\ Return(c, t)
            /\ hist' = [hist EXCEPT ![t].handle = "open"]
       ELSE /\ Goto(c, "R763")
            /\ UNCHANGED hist
    /\ UNCHANGED << globals, os, calls >>

(* --------------------------- thread_launcher -------------------------- *)

Lat(t, p) == os[t].pc = p

Lgoto(t, p) == os' = [os EXCEPT ![t].pc = p]

\* Deferred cancellation: a thread whose cancellation was requested ends
\* at a cancellation point instead of going on.  The points are
\* pthread_cond_timedwait (which takes the mutex back first) and whatever
\* the start routine calls.
Cancelled(t) ==
    /\ os[t].cancelReq
    /\ os[t].pc \in {"L325w", "U1", "U3"}
    /\ Lgoto(t, "cancelled")
    /\ obj' = IF os[t].pc = "L325w"
              THEN [obj EXCEPT ![t].threadIsReadyMutex = t, ![t].threadIsReady = "idle"]
              ELSE obj
    /\ UNCHANGED << globals, caller, calls, hist >>

\* Lines 304-317: bind the current-thread slot, read lpStartAddress, lock
\* threadIsReadyMutex (which no other thread ever locks).
Launcher_enter(t) ==
    /\ Lat(t, "L304")
    /\ obj[t].threadIsReadyMutex = NULL
    /\ obj' = [obj EXCEPT ![t].threadIsReadyMutex = t]
    /\ os' = [os EXCEPT ![t].tls = t, ![t].pc = "L319"]
    /\ UNCHANGED << globals, caller, calls, hist >>

\* Line 319.
Launcher_signal(t) ==
    /\ Lat(t, "L319")
    /\ obj' = [obj EXCEPT ![t].threadReady = cond_signal(@)]
    /\ Lgoto(t, "L325")
    /\ UNCHANGED << globals, caller, calls, hist >>

\* Line 325, entering pthread_cond_timedwait.
Launcher_wait(t) ==
    /\ Lat(t, "L325")
    /\ obj' = [obj EXCEPT ![t].threadIsReadyMutex = NULL, ![t].threadIsReady = "waiting"]
    /\ Lgoto(t, "L325w")
    /\ UNCHANGED << globals, caller, calls, hist >>

\* Lines 325-334, pthread_cond_timedwait returns with the mutex held; with
\* the thread list compiled in, a thread that is not registered gives up.
Launcher_woken(t) ==
    /\ Lat(t, "L325w")
    /\ TimedWaitReturns(obj[t].threadIsReady)
    /\ obj[t].threadIsReadyMutex = NULL
    /\ ListFree(t)
    /\ IF WITH_THREAD_LIST /\ t \notin thread_list
       THEN /\ obj' = [obj EXCEPT ![t].threadIsReady = "idle"]
            /\ Lgoto(t, "L344")
       ELSE /\ obj' = [obj EXCEPT ![t].threadIsReadyMutex = t, ![t].threadIsReady = "idle"]
            /\ Lgoto(t, "L336")
    /\ UNCHANGED << globals, caller, calls, hist >>

\* Lines 336-339: unlock, then the start routine is entered.
Launcher_fkt(t) ==
    /\ Lat(t, "L336")
    /\ obj' = [obj EXCEPT ![t].threadIsReadyMutex = NULL]
    /\ Lgoto(t, "U1")
    /\ hist' = [hist EXCEPT ![t].fnCalls = @ + 1]
    /\ UNCHANGED << globals, caller, calls >>

(* -------------------------- winpr_GetCurrentThread -------------------- *)

\* Lines 657-669 for the thread whose pthread_self() is self and whose
\* current-thread slot holds slot.
winpr_GetCurrentThread(self, slot) ==
    IF (IF threads_InitOnce THEN mainThreadId ELSE self) = self
    THEN mainThread
    ELSE slot


\* An application thread asks for its Thread Object; it has no slot.
GetCurrentThread(c) ==
    /\ caller[c].pc = "idle"
    /\ InitOnceExecuteOnce(c)
    /\ CallReturn(c, "GetCurrentThread", NULL, winpr_GetCurrentThread(c, NULL))
    /\ UNCHANGED << thread_list, obj, os, calls, hist >>

(* ------------------------------ ExitThread ---------------------------- *)

\* The start routine asks for its own Thread Object and, if it is one
\* that does, calls ExitThread(code).  Without the thread list that
\* function is empty (lines 634-636) and returns; with it, the object is
\* looked up by pthread_self() and marked exited (lines 598-620).
User_body(t) ==
    /\ Lat(t, "U1")
    /\ obj[t].lpStartAddress.kind = "exit" => ListFree(t)
    /\ InitOnceExecuteOnce(t)
    /\ hist' = [hist EXCEPT
                  ![t].current = {winpr_GetCurrentThread(t, os[t].tls)},
                  ![t].selfExit = obj[t].lpStartAddress.code]
    /\ IF obj[t].lpStartAddress.kind = "exit" /\ WITH_THREAD_LIST
       THEN IF t \in thread_list
            THEN /\ obj' = [obj EXCEPT ![t].exited = TRUE]
                 /\ Lgoto(t, "E621")
            ELSE /\ Lgoto(t, "done")
                 /\ UNCHANGED obj
       ELSE /\ Lgoto(t, "U3")
            /\ UNCHANGED obj
    /\ UNCHANGED << thread_list, caller, calls >>

\* Line 621.
ExitThread_code(t) ==
    /\ Lat(t, "E621")
    /\ obj' = [obj EXCEPT ![t].dwExitCode = obj[t].lpStartAddress.code]
    /\ Lgoto(t, "E626")
    /\ UNCHANGED << globals, caller, calls, hist >>

\* Lines 626-627.
ExitThread_set(t) ==
    /\ Lat(t, "E626")
    /\ obj' = [obj EXCEPT ![t] = set_event(@)]
    /\ hist' = [hist EXCEPT ![t].ownExit = TRUE]
    /\ Lgoto(t, "E629")
    /\ UNCHANGED << globals, caller, calls >>

\* Whether an exiting thread destroys its own object (lines 352 and 629).
SelfDestroys(o) == o.detached \/ ~o.started

\* Lines 629-632: destroy the object if nobody else will, then
\* pthread_exit.
ExitThread_leave(t) ==
    /\ Lat(t, "E629")
    /\ SelfDestroys(obj[t]) => ListFree(t)
    /\ IF SelfDestroys(obj[t])
       THEN cleanup_handle(t, t)
       ELSE UNCHANGED << obj, thread_list, hist >>
    /\ Lgoto(t, "done")
    /\ UNCHANGED << WITH_THREAD_LIST, fault, thread_list_lock, threads_InitOnce, mainThreadId, caller, calls >>

\* The start routine runs on and returns; rc receives its value
\* (line 339).
User_return(t) ==
    /\ Lat(t, "U3")
    /\ os' = [os EXCEPT ![t].rc = obj[t].lpStartAddress.ret, ![t].pc = "L344"]
    /\ hist' = [hist EXCEPT ![t].afterExit = (hist[t].selfExit # 0)]
    /\ UNCHANGED << globals, obj, caller, calls >>

(* --------------------- thread_launcher, the exit path ----------------- *)

\* apc_cleanupThread: the callbacks still pending are dropped.
apc_cleanupThread(o) == [o EXCEPT !.apc = 0]

\* Line 344.
Launcher_apc(t) ==
    /\ Lat(t, "L344")
    /\ obj' = [obj EXCEPT ![t] = apc_cleanupThread(@)]
    /\ Lgoto(t, "L346")
    /\ UNCHANGED << globals, caller, calls, hist >>

\* A launcher that never stores the start routine's value.
KeepsExitCode_Always(o) == TRUE

\* Line 346: an exit code recorded by an explicit exit is kept.
KeepsExitCode(o) == o.exited

\* Line 346: the test of thread->exited.
Launcher_exited(t) ==
    /\ Lat(t, "L346")
    /\ os' = [os EXCEPT ![t].sawExited = KeepsExitCode(obj[t]),
                        ![t].pc = IF KeepsExitCode(obj[t]) THEN "L349" ELSE "L347"]
    /\ UNCHANGED << globals, obj, caller, calls, hist >>

\* Line 347.
Launcher_code(t) ==
    /\ Lat(t, "L347")
    /\ obj' = [obj EXCEPT ![t].dwExitCode = os[t].rc]
    /\ Lgoto(t, "L349")
    /\ UNCHANGED << globals, caller, calls, hist >>

\* Lines 349-351: set the latch, signal threadReady once more.
Launcher_set(t) ==
    /\ Lat(t, "L349")
    /\ obj' = [obj EXCEPT ![t] = [set_event(@) EXCEPT !.threadReady = cond_signal(@)]]
    /\ hist' = [hist EXCEPT ![t].ownExit = TRUE]
    /\ Lgoto(t, "L352")
    /\ UNCHANGED << globals, caller, calls >>

\* Lines 352-356.
Launcher_leave(t) ==
    /\ Lat(t, "L352")
    /\ SelfDestroys(obj[t]) => ListFree(t)
    /\ IF SelfDestroys(obj[t])
       THEN cleanup_handle(t, t)
       ELSE UNCHANGED << obj, thread_list, hist >>
    /\ Lgoto(t, "done")
    /\ UNCHANGED << WITH_THREAD_LIST, fault, thread_list_lock, threads_InitOnce, mainThreadId, caller, calls >>

(* ---------------------- operations on an open handle ------------------ *)

\* The application passes a handle CreateThread returned and it has not
\* closed, and issues at most MaxCalls operations.
CanCall(c, t) ==
    /\ caller[c].pc = "idle"
    /\ hist[t].handle = "open"
    /\ calls < MaxCalls

Busy(t) == \E c \in Callers : caller[c].pc # "idle" /\ caller[c].t = t

(* ----------------------------- ResumeThread --------------------------- *)

\* A ResumeThread that runs the Start sequence whatever the state.
ResumeStarts_Always(o) == TRUE

\* Line 752: the Start sequence runs only for an object not yet started.
ResumeStarts(o) == ~o.started

\* Lines 744-747.
ResumeThread(c, t) ==
    /\ CanCall(c, t)
    /\ Call(c, "Resume", t, 0, "R749")
    /\ calls' = calls + 1
    /\ hist' = [hist EXCEPT ![t].resumed = TRUE]
    /\ UNCHANGED << globals, obj, os >>

\* Line 749.
ResumeThread_lock(c, t) ==
    /\ At(c, t, "R749")
    /\ obj[t].mutex = NULL
    /\ obj' = [obj EXCEPT ![t].mutex = c]
    /\ Goto(c, "R752")
    /\ UNCHANGED << globals, os, calls, hist >>

\* Line 752.
ResumeThread_check(c, t) ==
    /\ At(c, t, "R752")
    /\ Goto(c, IF ResumeStarts(obj[t]) THEN "S369" ELSE "R761")
    /\ UNCHANGED << globals, obj, os, calls, hist >>

\* Lines 760-766: the thread was started already; warn, unlock, return 0.
ResumeThread_already(c, t) ==
    /\ At(c, t, "R761")
    /\ obj' = [obj EXCEPT ![t].mutex = NULL]
    /\ Return(c, 0)
    /\ UNCHANGED << globals, os, calls, hist >>

\* Lines 756-757: winpr_StartThread failed.
ResumeThread_fail(c, t) ==
    /\ At(c, t, "R756")
    /\ obj' = [obj EXCEPT ![t].mutex = NULL]
    /\ Return(c, -1)
    /\ UNCHANGED << globals, os, calls, hist >>

\* Lines 763-766.
ResumeThread_unlock(c, t) ==
    /\ At(c, t, "R763")
    /\ obj' = [obj EXCEPT ![t].mutex = NULL]
    /\ Return(c, 0)
    /\ UNCHANGED << globals, os, calls, hist >>

(* ---------------------------- TerminateThread ------------------------- *)

\* Lines 794-798.  pthread_cancel needs the pthread_t of a thread that
\* was spawned, so the application terminates only such a handle.
TerminateThread(c, t, code) ==
    /\ CanCall(c, t)
    /\ hist[t].spawned > 0
    /\ obj' = [obj EXCEPT ![t].exited = TRUE]
    /\ Call(c, "Terminate", t, code, "T799")
    /\ calls' = calls + 1
    /\ UNCHANGED << globals, os, hist >>

\* Line 799.
TerminateThread_code(c, t) ==
    /\ At(c, t, "T799")
    /\ obj' = [obj EXCEPT ![t].dwExitCode = caller[c].arg]
    /\ Goto(c, "T801")
    /\ UNCHANGED << globals, os, calls, hist >>

\* Line 801.
TerminateThread_lock(c, t) ==
    /\ At(c, t, "T801")
    /\ obj[t].mutex = NULL
    /\ obj' = [obj EXCEPT ![t].mutex = c]
    /\ Goto(c, "T805")
    /\ UNCHANGED << globals, os, calls, hist >>

\* Line 805: the request has no effect on a thread that has ended.
TerminateThread_cancel(c, t) ==
    /\ At(c, t, "T805")
    /\ os' = [os EXCEPT ![t].cancelReq = TRUE]
    /\ Goto(c, "T810")
    /\ UNCHANGED << globals, obj, calls, hist >>

\* Line 810.
TerminateThread_unlock(c, t) ==
    /\ At(c, t, "T810")
    /\ obj' = [obj EXCEPT ![t].mutex = NULL]
    /\ Goto(c, "T813")
    /\ UNCHANGED << globals, os, calls, hist >>

\* Lines 813-814.
TerminateThread_set(c, t) ==
    /\ At(c, t, "T813")
    /\ obj' = [obj EXCEPT ![t] = set_event(@)]
    /\ hist' = [hist EXCEPT ![t].terminated = caller[c].arg]
    /\ Return(c, 1)
    /\ UNCHANGED << globals, os, calls >>

(* --------------------------- GetExitCodeThread ------------------------ *)

\* Line 649: the stored exit code, whatever the state of the thread.
GetExitCode(o) == o.dwExitCode

\* Lines 645-650.
GetExitCodeThread(c, t) ==
    /\ CanCall(c, t)
    /\ CallReturn(c, "GetExitCode", t, GetExitCode(obj[t]))
    /\ calls' = calls + 1
    /\ UNCHANGED << globals, obj, os, hist >>

(* ------------------------------ QueueUserAPC -------------------------- *)

\* apc_register: the item is appended to the target's queue.
apc_register(o) == [o EXCEPT !.apc = @ + 1]

\* What QueueUserAPC returns once the item is built (line 735).
QueueUserAPC_result(o) == 1

\* Lines 709-735, with a callback and a thread handle.
QueueUserAPC(c, t) ==
    /\ CanCall(c, t)
    /\ obj' = [obj EXCEPT ![t] = apc_register(@)]
    /\ CallReturn(c, "QueueUserAPC", t, QueueUserAPC_result(obj[t]))
    /\ calls' = calls + 1
    /\ UNCHANGED << globals, os, hist >>

(* ------------- WaitForSingleObject and ThreadCleanupHandle ------------ *)

\* WaitForSingleObject(handle, 0): a handle whose latch is set completes
\* the wait through the handle's wait-completion hook, any other times out.
WaitCompletes(o) == o.event

\* pthread_join returns 0 for a joinable thread that has ended and blocks
\* while it runs; it fails for a pthread_t that names no joinable thread
\* (never spawned, or detached).
Joinable(t) == hist[t].spawned > 0 /\ ~os[t].detached

Ended(t) == os[t].pc \in {"done", "cancelled"}

\* A hook that joins whatever the flag says.
NeedsJoin_Always(o) == TRUE

\* Line 140: the join is attempted only once.
NeedsJoin(o) == ~o.joined

\* Where the hook returns to: WaitForSingleObject called by the
\* application, or by ThreadCloseHandle at line 564.
AfterHook(c, status) ==
    IF caller[c].op = "Close"
    THEN Goto(c, IF status = WAIT_OBJECT_0 THEN "X572" ELSE "X567")
    ELSE Return(c, status)

\* The application polls the handle.
WaitForSingleObject(c, t) ==
    /\ CanCall(c, t)
    /\ IF WaitCompletes(obj[t])
       THEN Call(c, "Wait", t, 0, "H137")
       ELSE CallReturn(c, "Wait", t, WAIT_TIMEOUT)
    /\ calls' = calls + 1
    /\ UNCHANGED << globals, obj, os, hist >>

\* Line 137.
ThreadCleanupHandle_lock(c, t) ==
    /\ At(c, t, "H137")
    /\ obj[t].mutex = NULL
    /\ obj' = [obj EXCEPT ![t].mutex = c]
    /\ Goto(c, "H140")
    /\ UNCHANGED << globals, os, calls, hist >>

\* Lines 140-153, the join is skipped or succeeds.
ThreadCleanupHandle_join(c, t) ==
    /\ At(c, t, "H140")
    /\ NeedsJoin(obj[t]) => (Joinable(t) /\ Ended(t))
    /\ obj' = [obj EXCEPT ![t].joined = TRUE]
    /\ hist' = [hist EXCEPT ![t].joins = IF NeedsJoin(obj[t]) THEN @ + 1 ELSE @]
    /\ Goto(c, "H155")
    /\ UNCHANGED << globals, os, calls >>

\* Lines 143-150, pthread_join fails.
ThreadCleanupHandle_joinFails(c, t) ==
    /\ At(c, t, "H140")
    /\ NeedsJoin(obj[t])
    /\ ~Joinable(t)
    /\ obj' = [obj EXCEPT ![t].mutex = NULL]
    /\ AfterHook(c, WAIT_FAILED)
    /\ UNCHANGED << globals, os, calls, hist >>

\* Lines 155-158.
ThreadCleanupHandle_unlock(c, t) ==
    /\ At(c, t, "H155")
    /\ obj' = [obj EXCEPT ![t].mutex = NULL]
    /\ AfterHook(c, WAIT_OBJECT_0)
    /\ UNCHANGED << globals, os, calls, hist >>

(* --------------------------- ThreadCloseHandle ------------------------ *)

\* Line 564: a thread that was started is polled with
\* WaitForSingleObject(thread, 0).
ClosePolls(o) == o.started

\* Lines 547-564.  The application closes a handle once, when no other
\* operation on it is in progress.  With the thread list compiled in, a
\* thread that is not registered is only reported (lines 553-557), and
\* the rest runs inside ListDictionary_Lock (line 561).
ThreadCloseHandle(c, t) ==
    /\ CanCall(c, t)
    /\ ~Busy(t)
    /\ ListFree(c)
    /\ thread_list_lock' = IF WITH_THREAD_LIST /\ t \in thread_list THEN c ELSE NULL
    /\ hist' = [hist EXCEPT ![t].handle = "closed",
                            ![t].closed = IF ~ClosePolls(obj[t]) THEN "pending"
                                          ELSE IF WaitCompletes(obj[t]) THEN "exited"
                                          ELSE "running"]
    /\ calls' = calls + 1
    /\ IF WITH_THREAD_LIST /\ t \notin thread_list
       THEN CallReturn(c, "Close", t, 1)
       ELSE Call(c, "Close", t, 0,
                 IF ClosePolls(obj[t])
                 THEN (IF WaitCompletes(obj[t]) THEN "H137" ELSE "X567")
                 ELSE "X572")
    /\ UNCHANGED << WITH_THREAD_LIST, fault, threads_InitOnce, mainThreadId,
                    thread_list, obj, os >>

\* Line 567.
ThreadCloseHandle_detached(c, t) ==
    /\ At(c, t, "X567")
    /\ obj' = [obj EXCEPT ![t].detached = TRUE]
    /\ Goto(c, "X568")
    /\ UNCHANGED << globals, os, calls, hist >>

\* Lines 568-580.
ThreadCloseHandle_detach(c, t) ==
    /\ At(c, t, "X568")
    /\ os' = [os EXCEPT ![t].detached = TRUE]
    /\ thread_list_lock' = NULL
    /\ Return(c, 1)
    /\ UNCHANGED << WITH_THREAD_LIST, fault, threads_InitOnce, mainThreadId,
                    thread_list, obj, calls, hist >>

\* Lines 572-580.
ThreadCloseHandle_cleanup(c, t) ==
    /\ At(c, t, "X572")
    /\ cleanup_handle(c, t)
    /\ thread_list_lock' = NULL
    /\ Return(c, 1)
    /\ UNCHANGED << WITH_THREAD_LIST, fault, threads_InitOnce, mainThreadId, os, calls >>

(* --------------------------- the specification ------------------------ *)

\* A step of the OS thread spawned for t.
LauncherStep(t) ==
    \/ Launcher_enter(t)
    \/ Launcher_signal(t)
    \/ Launcher_wait(t)
    \/ Launcher_woken(t)
    \/ Launcher_fkt(t)
    \/ User_body(t)
    \/ User_return(t)
    \/ ExitThread_code(t)
    \/ ExitThread_set(t)
    \/ ExitThread_leave(t)
    \/ Launcher_apc(t)
    \/ Launcher_exited(t)
    \/ Launcher_code(t)
    \/ Launcher_set(t)
    \/ Launcher_leave(t)

\* A step inside winpr_StartThread.
StartStep(c, t) ==
    \/ StartThread_started(c, t)
    \/ StartThread_reset(c, t)
    \/ StartThread_lock(c, t)
    \/ StartThread_spawn(c, t)
    \/ StartThread_spawnFails(c, t)
    \/ StartThread_wait(c, t)
    \/ StartThread_woken(c, t)
    \/ StartThread_unlock(c, t)
    \/ StartThread_signal(c, t)

\* A step of an application thread inside an operation.
CallerStep(c, t) ==
    \/ StartStep(c, t)
    \/ CreateThread_fail(c, t)
    \/ ResumeThread_lock(c, t)
    \/ ResumeThread_check(c, t)
    \/ ResumeThread_already(c, t)
    \/ ResumeThread_fail(c, t)
    \/ ResumeThread_unlock(c, t)
    \/ TerminateThread_code(c, t)
    \/ TerminateThread_lock(c, t)
    \/ TerminateThread_cancel(c, t)
    \/ TerminateThread_unlock(c, t)
    \/ TerminateThread_set(c, t)
    \/ ThreadCleanupHandle_lock(c, t)
    \/ ThreadCleanupHandle_join(c, t)
    \/ ThreadCleanupHandle_joinFails(c, t)
    \/ ThreadCleanupHandle_unlock(c, t)
    \/ ThreadCloseHandle_detached(c, t)
    \/ ThreadCloseHandle_detach(c, t)
    \/ ThreadCloseHandle_cleanup(c, t)

\* An application thread issues an operation on a handle.
CallerCall(c, t) ==
    \/ ResumeThread(c, t)
    \/ \E code \in Codes : TerminateThread(c, t, code)
    \/ GetExitCodeThread(c, t)
    \/ QueueUserAPC(c, t)
    \/ WaitForSingleObject(c, t)
    \/ ThreadCloseHandle(c, t)

\* The whole interface on one Thread Object: the process's original
\* thread creates it and uses every operation; a second application
\* thread shares the handle and resumes it or waits on it meanwhile.
Next ==
    \/ \E fn \in StartRoutines, suspended \in BOOLEAN :
          CreateThread(OriginalThread, 1, fn, suspended)
    \/ CallerCall(OriginalThread, 1)
    \/ ResumeThread(RawThread, 1)
    \/ WaitForSingleObject(RawThread, 1)
    \/ \E c \in Callers : CallerStep(c, 1)
    \/ \E c \in Callers : Returned(c)
    \/ LauncherStep(1)
    \/ Cancelled(1)

Spec == Init /\ [][Next]_vars

\* The interface used by the original thread alone.  The scheduler lets
\* every thread that can take a step take one eventually: the spawned
\* thread, and an application thread inside an operation.  Issuing an
\* operation is up to the application.
NextOne ==
    \/ \E fn \in StartRoutines, suspended \in BOOLEAN :
          CreateThread(OriginalThread, 1, fn, suspended)
    \/ CallerCall(OriginalThread, 1)
    \/ CallerStep(OriginalThread, 1)
    \/ Returned(OriginalThread)
    \/ LauncherStep(1)
    \/ Cancelled(1)

FairSpec ==
    /\ Init
    /\ [][NextOne]_vars
    /\ WF_vars(LauncherStep(1))
    /\ WF_vars(CallerStep(OriginalThread, 1))

\* The same interface in a run that may meet the failure of one
\* primitive.
SpecFaulty == InitFaulty /\ [][NextOne]_vars

\* Current-thread resolution: either application thread creates the
\* Thread Object or asks for its own, and the spawned thread asks from
\* inside its start routine.
NextCurrent ==
    \/ \E c \in Callers, fn \in StartRoutines, suspended \in BOOLEAN :
          CreateThread(c, 1, fn, suspended)
    \/ \E c \in Callers : StartStep(c, 1)
    \/ \E c \in Callers : CreateThread_fail(c, 1)
    \/ \E c \in Callers : GetCurrentThread(c)
    \/ \E c \in Callers : Returned(c)
    \/ LauncherStep(1)

SpecCurrent == Init /\ [][NextCurrent]_vars

\* The original thread creates every Thread Object, the start routine of
\* object t calling ExitThread(t), and reads the exit codes; the spawned
\* threads run concurrently.
NextMany ==
    \/ \E t \in Threads : CreateThread(OriginalThread, t, FnExit(t), FALSE)
    \/ \E t \in Threads : StartStep(OriginalThread, t)
    \/ \E t \in Threads : CreateThread_fail(OriginalThread, t)
    \/ \E t \in Threads : GetExitCodeThread(OriginalThread, t)
    \/ Returned(OriginalThread)
    \/ \E t \in Threads : LauncherStep(t)

SpecMany == Init /\ [][NextMany]_vars

(* ------------------------------- claims ------------------------------- *)

\* The thread of t was created running, by a CreateThread that succeeded.
CreatedRunning(t) == hist[t].handle = "open" /\ ~hist[t].suspended

\* The start routine of t is one that returns a value.
Returns(t) == obj[t].lpStartAddress.kind = "return"

\* C1 as stated: after CreateThread(fn, arg, suspended = false) succeeds
\* the latch is eventually set, and whenever the thread's own exit path
\* has set the latch, GetExitCode gives the value fn returned.
C1_AsStated ==
    /\ \A t \in Threads : CreatedRunning(t) ~> obj[t].event
    /\ [](\A t \in Threads :
            (CreatedRunning(t) /\ Returns(t) /\ hist[t].ownExit)
               => GetExitCode(obj[t]) = obj[t].lpStartAddress.ret)

\* C1, amended: after CreateThread(fn, arg, suspended = false) succeeds
\* the latch is eventually set, and whenever the thread's own exit path
\* has set the latch and no TerminateThread has marked the object exited,
\* GetExitCode gives the value fn returned.
C1_ExitCodeOfReturn ==
    /\ \A t \in Threads : CreatedRunning(t) ~> obj[t].event
    /\ [](\A t \in Threads :
            (CreatedRunning(t) /\ Returns(t) /\ hist[t].ownExit /\ ~obj[t].exited)
               => GetExitCode(obj[t]) = obj[t].lpStartAddress.ret)

\* A GetExitCodeThread call has returned the start routine's value after
\* the thread's own exit set the latch.
C1_Witness ==
    \E c \in Callers :
        /\ caller[c].pc = "ret" /\ caller[c].op = "GetExitCode"
        /\ caller[c].t # NULL
        /\ CreatedRunning(caller[c].t) /\ Returns(caller[c].t)
        /\ hist[caller[c].t].ownExit /\ ~obj[caller[c].t].exited
        /\ obj[caller[c].t].event
        /\ caller[c].ret = obj[caller[c].t].lpStartAddress.ret

(* C2 *)

\* A ResumeThread on t has returned 0.
ResumeSucceeded(t) ==
    \E c \in Callers :
        /\ caller[c].pc = "ret" /\ caller[c].op = "Resume"
        /\ caller[c].t = t /\ caller[c].ret = 0

\* C2 as stated: for an object created suspended, as long as ResumeThread
\* has not been called no OS thread has been spawned and the start routine
\* has not been invoked; once a ResumeThread has succeeded the start
\* routine is eventually invoked, unless the thread is cancelled first as
\* a thread created running can be.
C2_AsStated ==
    /\ [](\A t \in Threads :
            (hist[t].suspended /\ ~hist[t].resumed)
               => (hist[t].spawned = 0 /\ hist[t].fnCalls = 0))
    /\ \A t \in Threads :
          (hist[t].suspended /\ ResumeSucceeded(t))
             ~> (hist[t].fnCalls > 0 \/ os[t].cancelReq)

(* C3 *)

\* C3 as stated, for a thread whose start routine returns: when
\* ThreadCloseHandle found the thread started and its latch unset, no join
\* was performed, and once the thread has run to completion and
\* ThreadCloseHandle has returned the object has been destroyed by the
\* thread itself.
C3_AsStated ==
    \A t \in Threads :
        (hist[t].closed = "running" /\ Returns(t))
           => /\ hist[t].joins = 0
              /\ (os[t].pc = "done" /\ ~Busy(t))
                    => (obj[t].alloc = "freed" /\ hist[t].freedBy = t)

(* C4 *)

\* A TerminateThread on t is between its call and its return.
TerminateInFlight(t) ==
    \E c \in Callers :
        /\ caller[c].op = "Terminate" /\ caller[c].t = t
        /\ caller[c].pc \notin {"idle", "ret"}

\* C4 as stated: once a TerminateThread(handle, code) has succeeded on a
\* started thread whose start routine returns a value, the latch is set
\* and GetExitCode gives code: the launcher's exit path does not replace
\* it with the start routine's return value.
C4_AsStated ==
    \A t \in Threads :
        ( /\ hist[t].handle = "open" /\ Returns(t)
          /\ hist[t].terminated # 0 /\ ~TerminateInFlight(t) )
           => (obj[t].event /\ GetExitCode(obj[t]) = hist[t].terminated)

(* C5 *)

\* C5 as stated: once a spawned thread has called ExitThread(c) with no
\* exit recorded before, the exit code of its object is c, its latch is
\* set and the thread runs no further user code; with every object's
\* thread exiting with its own code, each object gives its own.
C5_AsStated ==
    \A t \in Threads :
        (hist[t].selfExit # 0 /\ os[t].pc \notin {"E621", "E626"})
           => /\ GetExitCode(obj[t]) = hist[t].selfExit
              /\ obj[t].event
              /\ os[t].pc # "U3" /\ ~hist[t].afterExit

(* C6 *)

\* The flags and the latch of a Thread Object.
Flags(o) == << o.started, o.exited, o.detached, o.joined, o.event >>

\* C6: over any interleaving of CreateThread and ResumeThread calls on one
\* object at most one OS thread is spawned for it; a ResumeThread that
\* finds the object started spawns nothing, changes no flag, leaves the
\* latch alone and returns 0.
C6_SpawnedOnce ==
    /\ [](\A t \in Threads : hist[t].spawned <= 1)
    /\ [](\A c \in Callers, t \in Threads : At(c, t, "R761") => obj[t].started)
    /\ [][\A c \in Callers, t \in Threads :
            (At(c, t, "R761") /\ caller'[c] # caller[c])
               => /\ caller'[c].pc = "ret" /\ caller'[c].ret = 0
                  /\ Flags(obj'[t]) = Flags(obj[t])
                  /\ hist'[t].spawned = hist[t].spawned
                  /\ os' = os]_vars

\* A ResumeThread on an object created running, hence started already,
\* has returned 0 with the one OS thread spawned.
C6_Witness ==
    \E c \in Callers :
        /\ caller[c].pc = "ret" /\ caller[c].op = "Resume"
        /\ caller[c].t # NULL /\ caller[c].ret = 0
        /\ ~hist[caller[c].t].suspended
        /\ hist[caller[c].t].spawned = 1

(* C7 *)

\* C7: for an object created suspended the latch is set until
\* ResumeThread starts it, is unset when the OS thread is spawned, stays
\* unset until the thread's own exit or a TerminateThread sets it, and is
\* set from then on.
C7_LatchOfSuspended ==
    \A t \in Threads :
        (hist[t].suspended /\ obj[t].alloc = "live")
           => /\ ~obj[t].started => obj[t].event
              /\ (\E c \in Callers : At(c, t, "S372") \/ At(c, t, "S384"))
                    => ~obj[t].event
              /\ (hist[t].spawned > 0 /\ ~hist[t].ownExit /\ hist[t].terminated = 0)
                    => ~obj[t].event
              /\ (hist[t].ownExit \/ hist[t].terminated # 0) => obj[t].event

\* The thread of an object created suspended was resumed, ran and set the
\* latch by its own exit.
C7_Witness ==
    \E t \in Threads :
        /\ hist[t].suspended /\ hist[t].resumed /\ obj[t].alloc = "live"
        /\ hist[t].fnCalls > 0 /\ hist[t].ownExit /\ obj[t].event

(* C8 *)

\* C8 as stated: a QueueUserAPC whose target thread has exited, its latch
\* set by its own exit, returns 0 and enqueues nothing.
C8_AsStated ==
    [][\A c \in Callers, t \in Threads :
          ( /\ caller[c].pc = "idle" /\ caller'[c].op = "QueueUserAPC"
            /\ caller'[c].t = t /\ hist[t].ownExit )
             => (caller'[c].ret = 0 /\ obj'[t].apc = obj[t].apc)]_vars

(* C9 *)

\* C9 as stated: winpr_GetCurrentThread gives the main-thread singleton
\* to the original thread, NULL to a thread not spawned by CreateThread,
\* and its own object to a thread asking from its start routine, whoever
\* ran the one-time initialisation.
C9_AsStated ==
    /\ \A c \in Callers :
          (caller[c].pc = "ret" /\ caller[c].op = "GetCurrentThread")
             => caller[c].ret = (IF c = OriginalThread THEN mainThread ELSE NULL)
    /\ \A t \in Threads : \A v \in hist[t].current : v = t

(* C10 *)

\* The creator of t is in the rendezvous of lines 390-395: it has not
\* yet woken from its wait on threadReady, or not yet signalled
\* threadIsReady.
InRendezvous(t) ==
    \E c \in Callers :
        caller[c].t = t /\ caller[c].pc \in {"S390", "S390w", "S392", "S395"}

\* C10 as stated: the start routine is invoked only after the creator has
\* woken from its wait on threadReady and has signalled threadIsReady.
C10_AsStated ==
    \A t \in Threads : hist[t].fnCalls > 0 => ~InRendezvous(t)

(* C11 *)

\* The launcher of t has bound the current-thread slot (line 304) and
\* signalled threadReady (line 319).
Acknowledged(t) == os[t].pc \notin {"none", "L304", "L319"}

\* winpr_StartThread has returned TRUE to c for t: CreateThread has
\* returned the handle of a thread created running, or ResumeThread is
\* at line 763.
StartSucceeded(c, t) ==
    \/ /\ caller[c].pc = "ret" /\ caller[c].op = "Create"
       /\ caller[c].t = t /\ caller[c].ret = t /\ ~hist[t].suspended
    \/ At(c, t, "R763")

\* C11 as stated: a CreateThread of a running thread or a ResumeThread
\* that succeeds does not return before the launcher has bound the
\* current-thread slot and signalled threadReady.
C11_AsStated ==
    \A c \in Callers, t \in Threads : StartSucceeded(c, t) => Acknowledged(t)

(* C12 *)

\* Application thread c is inside winpr_StartThread for t.
InStart(c, t) ==
    /\ caller[c].t = t
    /\ caller[c].pc \in {"S369", "S370", "S372", "S384", "S390", "S390w", "S392", "S395"}

\* C12: the rendezvous does not deadlock, a lost signal included: a
\* creator inside winpr_StartThread eventually has its CreateThread or
\* ResumeThread return, and a launcher at its wait of line 325 eventually
\* enters the start routine, unless its cancellation was requested first.
C12_NoDeadlock ==
    /\ \A t \in Threads :
          (\E c \in Callers : InStart(c, t))
             ~> (\E c \in Callers :
                    /\ caller[c].t = t /\ caller[c].pc = "ret"
                    /\ caller[c].op \in {"Create", "Resume"})
    /\ \A t \in Threads :
          (os[t].pc \in {"L325", "L325w"})
             ~> (hist[t].fnCalls > 0 \/ os[t].cancelReq)

\* Both sides sleep, each on a condition the other has signalled already
\* or will not signal before it is woken itself: the launcher's signal of
\* line 319 was sent before the creator waited and is lost.
C12_Witness ==
    \E c \in Callers, t \in Threads :
        /\ At(c, t, "S390w") /\ obj[t].threadReady = "waiting"
        /\ os[t].pc = "L325w" /\ obj[t].threadIsReady = "waiting"

(* C13 *)

\* C13 as stated: cleanup_handle never runs twice on an object, and once
\* the handle of a started object is closed, ThreadCloseHandle has
\* returned and the thread has finished by itself, exactly one of the
\* two has destroyed the object.
C13_AsStated ==
    \A t \in Threads :
        /\ hist[t].frees <= 1
        /\ ( /\ obj[t].started /\ hist[t].handle = "closed"
             /\ ~Busy(t) /\ os[t].pc = "done" )
              => /\ hist[t].frees = 1
                 /\ obj[t].alloc = "freed"
                 /\ hist[t].freedBy \in Callers \cup {t}

(* C14 *)

\* The locks of Thread Object t that the thread self holds.
LocksHeld(self, t) ==
    {m \in {"mutex", "threadReadyMutex", "threadIsReadyMutex"} : obj[t][m] = self}

\* C14 as stated: TerminateThread stores the exit code (line 799, the
\* store that follows the one of exited) while it holds the object's
\* mutex, and requests the cancellation (line 805) while it holds no
\* lock.
C14_AsStated ==
    \A c \in Callers, t \in Threads :
        /\ At(c, t, "T799") => obj[t].mutex = c
        /\ At(c, t, "T805") => LocksHeld(c, t) = {}

(* C15 *)

\* C15: over any number of sequential or concurrent runs of
\* ThreadCleanupHandle on one object the OS thread is joined at most
\* once, joined is TRUE only after a join that succeeded, and a hook
\* that finds joined or detached TRUE attempts no join: it neither
\* joins nor fails, and goes on to its unlock.
C15_JoinedOnce ==
    /\ [](\A t \in Threads :
            /\ hist[t].joins <= 1
            /\ obj[t].joined => hist[t].joins = 1)
    /\ [][\A c \in Callers, t \in Threads :
            ( /\ At(c, t, "H140") /\ caller'[c] # caller[c]
              /\ (obj[t].joined \/ obj[t].detached) )
               => /\ hist'[t].joins = hist[t].joins
                  /\ caller'[c].pc = "H155"]_vars

\* Two application threads have waited on the handle, the hook of one has
\* returned, the other's has passed its test of joined, and the thread
\* was joined once.
C15_Witness ==
    \E t \in Threads :
        /\ caller[OriginalThread].op = "Wait" /\ caller[OriginalThread].t = t
        /\ caller[RawThread].op = "Wait" /\ caller[RawThread].t = t
        /\ \E c, d \in Callers :
              /\ c # d
              /\ caller[c].pc = "ret" /\ caller[c].ret = WAIT_OBJECT_0
              /\ caller[d].pc \in {"H155", "ret"}
        /\ obj[t].joined /\ hist[t].joins = 1

(* C16 *)

\* C16 as stated, for the forced termination: when TerminateThread sets
\* the latch (line 813) the callbacks pending in the thread's queue have
\* been drained.
C16_AsStated ==
    [][\A c \in Callers, t \in Threads :
          (At(c, t, "T813") /\ caller'[c].pc = "ret") => obj'[t].apc = 0]_vars

(* C17 *)

\* Every primitive occurs exactly once in seq.
Once(seq) ==
    /\ Len(seq) = Cardinality(Primitives)
    /\ \A p \in Primitives : \E i \in 1 .. Len(seq) : seq[i] = p

\* Every primitive of P occurs in seq before every primitive of Q.
Before(seq, P, Q) ==
    \A i, j \in 1 .. Len(seq) : (seq[i] \in P /\ seq[j] \in Q) => i < j

RendezvousConds == {"threadIsReady", "threadReady"}

RendezvousMutexes == {"threadIsReadyMutex", "threadReadyMutex"}

\* C17 as stated: a destroyed object has had each primitive released
\* once, the mutex before the rendezvous primitives, these before the
\* latch, the latch before the callback-queue context, and has been
\* freed even if one release reported an error.
C17_AsStated ==
    \A t \in Threads :
        hist[t].frees > 0
           => /\ Once(hist[t].released)
              /\ Before(hist[t].released, {"mutex"}, RendezvousConds \cup RendezvousMutexes)
              /\ Before(hist[t].released, RendezvousConds \cup RendezvousMutexes, {"event"})
              /\ Before(hist[t].released, {"event"}, {"apc"})
              /\ obj[t].alloc = "freed"

\* C17, amended: a destroyed object has had each primitive released
\* once, the callback-queue context first, then the rendezvous
\* conditions, then the rendezvous mutexes, then the mutex, then the
\* latch, and has been freed even if one release reported an error.
C17_ReleaseOrder ==
    \A t \in Threads :
        hist[t].frees > 0
           => /\ Once(hist[t].released)
              /\ Before(hist[t].released, {"apc"}, RendezvousConds)
              /\ Before(hist[t].released, RendezvousConds, RendezvousMutexes)
              /\ Before(hist[t].released, RendezvousMutexes, {"mutex"})
              /\ Before(hist[t].released, {"mutex"}, {"event"})
              /\ obj[t].alloc = "freed"

\* An object was destroyed in a run where the release of one primitive
\* reported an error, and was freed.
C17_Witness ==
    \E t \in Threads :
        /\ fault.release \in Primitives
        /\ hist[t].frees = 1 /\ obj[t].alloc = "freed"
        /\ Len(hist[t].released) = Len(ReleaseOrder)

(* C18 *)

\* C18 as stated: a CreateThread that has returned NULL, because a
\* primitive could not be constructed or because winpr_StartThread
\* failed, has released exactly the primitives it had constructed, has
\* left no OS thread behind and has freed the object; and a CreateThread
\* that met the failure of a primitive returns no handle.
C18_AsStated ==
    \A t \in Threads :
        /\ fault.init # 0 => hist[t].handle = "none"
        /\ \A c \in Callers :
              ( /\ caller[c].pc = "ret" /\ caller[c].op = "Create"
                /\ caller[c].t = t /\ caller[c].ret = NULL )
                 => /\ {hist[t].released[i] : i \in 1 .. Len(hist[t].released)}
                         = obj[t].constructed
                    /\ hist[t].spawned = 0
                    /\ obj[t].alloc = "freed"

(* C19 *)

\* C19 as stated: no thread inside an operation other than
\* ThreadCloseHandle holds more than one lock of a Thread Object.
C19_AsStated ==
    \A t \in Threads :
        /\ Cardinality(LocksHeld(t, t)) <= 1
        /\ \A c \in Callers :
              Cardinality(LocksHeld(c, t)) > 1 => caller[c].op = "Close"

\* C19, amended: only a thread inside ResumeThread holds more than one
\* lock of a Thread Object, and then the mutex together with
\* threadReadyMutex; every other operation and the launcher hold at most
\* one.
C19_OnlyResume ==
    \A t \in Threads :
        /\ Cardinality(LocksHeld(t, t)) <= 1
        /\ \A c \in Callers :
              Cardinality(LocksHeld(c, t)) > 1
                 => /\ caller[c].op = "Resume" /\ caller[c].t = t
                    /\ LocksHeld(c, t) = {"mutex", "threadReadyMutex"}

\* A ResumeThread is about to spawn the thread (line 384) holding the
\* mutex taken at line 749 and threadReadyMutex taken at line 372.
C19_Witness ==
    \E c \in Callers, t \in Threads :
        /\ At(c, t, "S384") /\ caller[c].op = "Resume"
        /\ LocksHeld(c, t) = {"mutex", "threadReadyMutex"}

(* C20 *)

\* A thread is inside an operation on t or inside the launcher of t: its
\* next step reads or writes a field of the object.
Touching(t) ==
    \/ \E c \in Callers : caller[c].t = t /\ caller[c].pc \notin {"idle", "ret"}
    \/ os[t].pc \notin {"none", "done", "cancelled"}

\* C20 as stated, no primitive failing: an object is not destroyed twice,
\* and once it is destroyed no thread is at a step that reads or writes
\* one of its fields.
C20_AsStated ==
    \A t \in Threads :
        /\ hist[t].frees <= 1
        /\ obj[t].alloc = "freed" => ~Touching(t)

(* C21 *)

\* pthread_create has failed in the Start sequence that a ResumeThread
\* ran for t.
ResumeSpawnFailed(t) == hist[t].suspended /\ hist[t].spawnFailed

\* C21: when pthread_create fails in the Start sequence run by
\* ResumeThread, that ResumeThread returns -1 and the object stays
\* started with its latch reset and no OS thread; from then on it is
\* never destroyed, its latch is never set, a ResumeThread finds it
\* started and returns 0 spawning nothing, and a ThreadCloseHandle takes
\* the detach branch and leaves it detached and allocated.  (The exit
\* paths are the launcher's and ExitThread's; TerminateThread, which sets
\* the latch at line 813, is only issued on an object that was spawned.)
C21_FailedResume ==
    /\ [](\A t \in Threads :
            ResumeSpawnFailed(t)
               => /\ obj[t].alloc = "live" /\ hist[t].frees = 0
                  /\ obj[t].started /\ ~obj[t].event
                  /\ hist[t].spawned = 0 /\ os[t].pc = "none"
                  /\ hist[t].closed \in {"no", "running"}
                  /\ (hist[t].handle = "closed" /\ ~Busy(t)) => obj[t].detached)
    /\ [](\A c \in Callers, t \in Threads :
            (At(c, t, "R756")
               \/ ( /\ caller[c].pc = "ret" /\ caller[c].op = "Resume"
                    /\ caller[c].t = t /\ caller[c].ret = -1 ))
               => ResumeSpawnFailed(t))
    /\ [][\A c \in Callers, t \in Threads :
            /\ (At(c, t, "R756") /\ caller'[c] # caller[c])
                  => (caller'[c].pc = "ret" /\ caller'[c].ret = -1)
            /\ (ResumeSpawnFailed(t) /\ At(c, t, "R752") /\ caller'[c] # caller[c])
                  => caller'[c].pc = "R761"
            /\ (ResumeSpawnFailed(t) /\ At(c, t, "R761") /\ caller'[c] # caller[c])
                  => /\ caller'[c].pc = "ret" /\ caller'[c].ret = 0
                     /\ hist'[t].spawned = 0 /\ os' = os]_vars

\* The handle of an object whose ResumeThread failed at pthread_create
\* has been closed: the object is detached, not destroyed, and its latch
\* is unset.
C21_Witness ==
    \E t \in Threads :
        /\ ResumeSpawnFailed(t)
        /\ hist[t].handle = "closed" /\ ~Busy(t)
        /\ hist[t].closed = "running"
        /\ obj[t].detached /\ obj[t].alloc = "live" /\ ~obj[t].event

=============================================================================
